---- MODULE Spec2Model ----
(***************************************************************************)
(* Model of the Security Analyzer (analyzeSecurity), the Bounded Executor   *)
(* (executeJavaScript) and the request handler (handleExecute) of          *)
(* src/src/index.ts.                                                       *)
(*                                                                         *)
(* Source text is a sequence of one-character strings; the analyzer's      *)
(* regular expressions are matched character by character.                 *)
(***************************************************************************)
EXTENDS Integers, Sequences, FiniteSets, TLC

VARIABLES code, report, apc, call, cpu, globalThis, req, now, env, rows

avars == <<code, report, apc>>

evars == <<call, cpu, globalThis>>

\* The global object of the isolate before any script has run.
FreshGlobal == [shared |-> "undefined"]

hvars == <<req, now, env, rows>>

\* No request is being handled.
NoHandler ==
  /\ req = << >>
  /\ now = 0
  /\ env = [MAX_EXECUTION_TIME |-> [t |-> "undefined"], DB |-> "none"]
  /\ rows = <<>>

(***************************************************************************)
(* Characters and regular expressions                                      *)
(***************************************************************************)
NL == "\n"

\* The regex atoms \s* and \s+ ; every other atom is a literal character.
WS0 == "\\s*"
WS1 == "\\s+"

\* String.prototype.toLowerCase on the letters, identity elsewhere.
LowerOf ==
  [c \in {"A","B","C","D","E","F","G","H","I","J","K","L","M",
          "N","O","P","Q","R","S","T","U","V","W","X","Y","Z"} |->
     CASE c = "A" -> "a" [] c = "B" -> "b" [] c = "C" -> "c" [] c = "D" -> "d"
       [] c = "E" -> "e" [] c = "F" -> "f" [] c = "G" -> "g" [] c = "H" -> "h"
       [] c = "I" -> "i" [] c = "J" -> "j" [] c = "K" -> "k" [] c = "L" -> "l"
       [] c = "M" -> "m" [] c = "N" -> "n" [] c = "O" -> "o" [] c = "P" -> "p"
       [] c = "Q" -> "q" [] c = "R" -> "r" [] c = "S" -> "s" [] c = "T" -> "t"
       [] c = "U" -> "u" [] c = "V" -> "v" [] c = "W" -> "w" [] c = "X" -> "x"
       [] c = "Y" -> "y" [] c = "Z" -> "z"]

Lower(c) == IF c \in DOMAIN LowerOf THEN LowerOf[c] ELSE c

\* The regex class \s on the characters a source can hold.
IsSpace(c) == c \in {" ", "\t", NL}

\* A literal atom against a character, under the regex's i flag or without it.
CharEq(ci, a, c) == IF ci THEN Lower(a) = Lower(c) ELSE a = c

\* Whether atoms k.. of a regex match the line starting at position i.
RECURSIVE MatchAt(_, _, _, _, _)
MatchAt(atoms, ci, k, line, i) ==
  IF k > Len(atoms) THEN TRUE
  ELSE IF atoms[k] = WS0
    THEN \/ MatchAt(atoms, ci, k + 1, line, i)
         \/ /\ i <= Len(line)
            /\ IsSpace(line[i])
            /\ MatchAt(atoms, ci, k, line, i + 1)
  ELSE IF atoms[k] = WS1
    THEN /\ i <= Len(line)
         /\ IsSpace(line[i])
         /\ \/ MatchAt(atoms, ci, k + 1, line, i + 1)
            \/ MatchAt(atoms, ci, k, line, i + 1)
  ELSE /\ i <= Len(line)
       /\ CharEq(ci, atoms[k], line[i])
       /\ MatchAt(atoms, ci, k + 1, line, i + 1)

\* Mutant of Test: the matcher is anchored at the start of the line.
Test_Anchored(p, line) ==
  \E alt \in p.alts : MatchAt(alt, p.ci, 1, line, 1)

\* RegExp.prototype.test of a rule's matcher (no g flag: no state is kept).
Test(p, line) ==
  \E alt \in p.alts : \E i \in 1..(Len(line) + 1) : MatchAt(alt, p.ci, 1, line, i)

(***************************************************************************)
(* PatternCatalog                                                          *)
(***************************************************************************)
dangerousPatterns ==
  <<
    [alts |-> {<<"e", "v", "a", "l", WS0, "(">>},
     ci |-> FALSE, name |-> "eval()", description |-> "Dynamic code execution", severity |-> "high"],
    [alts |-> {<<"F", "u", "n", "c", "t", "i", "o", "n", WS0, "(">>},
     ci |-> FALSE, name |-> "Function()", description |-> "Dynamic function creation", severity |-> "high"],
    [alts |-> {<<"i", "m", "p", "o", "r", "t", WS1>>},
     ci |-> FALSE, name |-> "import statements", description |-> "Module imports", severity |-> "medium"],
    [alts |-> {<<"r", "e", "q", "u", "i", "r", "e", WS0, "(">>},
     ci |-> FALSE, name |-> "require()", description |-> "Module requires", severity |-> "medium"],
    [alts |-> {<<"p", "r", "o", "c", "e", "s", "s", ".">>},
     ci |-> FALSE, name |-> "process object", description |-> "Process access", severity |-> "high"],
    [alts |-> {<<"g", "l", "o", "b", "a", "l", ".">>},
     ci |-> FALSE, name |-> "global object", description |-> "Global object access", severity |-> "medium"],
    [alts |-> {<<"w", "i", "n", "d", "o", "w", ".">>},
     ci |-> FALSE, name |-> "window object", description |-> "DOM access", severity |-> "low"],
    [alts |-> {<<"d", "o", "c", "u", "m", "e", "n", "t", ".">>},
     ci |-> FALSE, name |-> "document object", description |-> "DOM access", severity |-> "low"],
    [alts |-> {<<"f", "e", "t", "c", "h", WS0, "(">>},
     ci |-> FALSE, name |-> "fetch()", description |-> "Network requests", severity |-> "high"],
    [alts |-> {<<"X", "M", "L", "H", "t", "t", "p", "R", "e", "q", "u", "e", "s", "t">>},
     ci |-> TRUE, name |-> "XHR", description |-> "Network requests", severity |-> "high"],
    [alts |-> {<<"W", "e", "b", "S", "o", "c", "k", "e", "t">>},
     ci |-> TRUE, name |-> "WebSocket", description |-> "WebSocket connections", severity |-> "high"],
    [alts |-> {<<"l", "o", "c", "a", "l", "S", "t", "o", "r", "a", "g", "e">>, <<"s", "e", "s", "s", "i", "o", "n", "S", "t", "o", "r", "a", "g", "e">>},
     ci |-> TRUE, name |-> "storage", description |-> "Browser storage access", severity |-> "medium"],
    [alts |-> {<<"s", "e", "t", "T", "i", "m", "e", "o", "u", "t">>, <<"s", "e", "t", "I", "n", "t", "e", "r", "v", "a", "l">>},
     ci |-> TRUE, name |-> "timers", description |-> "Timer functions", severity |-> "medium"],
    [alts |-> {<<"w", "h", "i", "l", "e", WS0, "(", WS0, "t", "r", "u", "e", WS0, ")">>},
     ci |-> TRUE, name |-> "infinite loop", description |-> "Potential infinite loop", severity |-> "high"],
    [alts |-> {<<"f", "o", "r", WS0, "(", WS0, ";", ";", WS0, ")">>},
     ci |-> TRUE, name |-> "infinite loop", description |-> "Potential infinite loop", severity |-> "high"]
  >>

(***************************************************************************)
(* analyzeSecurity                                                         *)
(***************************************************************************)
\* code.split('\n'): the empty string splits into one empty line.
\* Line k is the text between separator k - 1 and separator k, the start and
\* the end of the text standing for separators 0 and n.
Split(s) ==
  LET nl == {i \in 1..Len(s) : s[i] = NL}
      n == Cardinality(nl) + 1
      sep(j) == IF j = 0 THEN 0
                ELSE IF j = n THEN Len(s) + 1
                ELSE CHOOSE i \in nl : Cardinality({m \in nl : m <= i}) = j
  IN [k \in 1..n |-> SubSeq(s, sep(k - 1) + 1, sep(k) - 1)]

\* Mutant of LineViolations: the scan of a line stops at the first rule that
\* matches it.
RECURSIVE LineViolations_FirstRule(_, _, _)
LineViolations_FirstRule(line, lineNum, k) ==
  IF k > Len(dangerousPatterns) THEN <<>>
  ELSE IF Test(dangerousPatterns[k], line)
         THEN << [line |-> lineNum,
                  pattern |-> dangerousPatterns[k].name,
                  description |-> dangerousPatterns[k].description,
                  severity |-> dangerousPatterns[k].severity] >>
         ELSE LineViolations_FirstRule(line, lineNum, k + 1)

\* The inner forEach: one violation per rule that matches the line, in catalog order.
RECURSIVE LineViolations(_, _, _)
LineViolations(line, lineNum, k) ==
  IF k > Len(dangerousPatterns) THEN <<>>
  ELSE (IF Test(dangerousPatterns[k], line)
          THEN << [line |-> lineNum,
                   pattern |-> dangerousPatterns[k].name,
                   description |-> dangerousPatterns[k].description,
                   severity |-> dangerousPatterns[k].severity] >>
          ELSE <<>>)
       \o LineViolations(line, lineNum, k + 1)

\* Mutant of ScanLines: the violations of a line are put before those found so
\* far (unshift in place of push).
RECURSIVE ScanLines_Unshift(_, _)
ScanLines_Unshift(lines, n) ==
  IF n > Len(lines) THEN <<>>
  ELSE ScanLines_Unshift(lines, n + 1) \o LineViolations(lines[n], n, 1)

\* The outer forEach: lines in order, lineNum = index + 1.
RECURSIVE ScanLines(_, _)
ScanLines(lines, n) ==
  IF n > Len(lines) THEN <<>>
  ELSE LineViolations(lines[n], n, 1) \o ScanLines(lines, n + 1)

\* (code.match(/lit/g) || []).length : the matches from position i on, left to
\* right.  No two occurrences of function, or of class, overlap, so every
\* occurrence is a match.
CountMatches(lit, s, i) ==
  Cardinality({j \in i..(Len(s) - Len(lit) + 1) : SubSeq(s, j, j + Len(lit) - 1) = lit})

Min(a, b) == IF a <= b THEN a ELSE b

\* Mutant of ComplexityTenths: the sum is returned as it is.
ComplexityTenths_NoClamp(s, violations, lines) ==
    Len(violations) * 100
  + Len(lines)
  + CountMatches(<<"f", "u", "n", "c", "t", "i", "o", "n">>, s, 1) * 50
  + CountMatches(<<"c", "l", "a", "s", "s">>, s, 1) * 30

\* The score is a JavaScript number with one decimal (lines.length / 10 is not
\* rounded); it is kept here in tenths: ComplexityTenths = 10 * complexityScore.
ComplexityTenths(s, violations, lines) ==
  Min(  Len(violations) * 100
      + Len(lines)
      + CountMatches(<<"f", "u", "n", "c", "t", "i", "o", "n">>, s, 1) * 50
      + CountMatches(<<"c", "l", "a", "s", "s">>, s, 1) * 30,
      1000)

\* Mutant of hasHighSeverity: every violation in place of some violation.
hasHighSeverity_Every(violations) ==
  \A j \in 1..Len(violations) : violations[j].severity = "high"

\* violations.some(v => v.severity === 'high')
hasHighSeverity(violations) ==
  \E j \in 1..Len(violations) : violations[j].severity = "high"

\* Mutant of hasTooManyViolations: the threshold is reached at five already.
hasTooManyViolations_AtFive(violations) == Len(violations) >= 5

hasTooManyViolations(violations) == Len(violations) > 5

\* Mutant of NewViolations: the array outlives the call and keeps the violations
\* of an analysis made before.
NewViolations_Kept ==
  LET done == {r \in DOMAIN req : req[r].securityReport.complexityTenths >= 0}
  IN IF done = {} THEN <<>> ELSE req[CHOOSE r \in done : TRUE].securityReport.violations

\* const violations = [] : every call starts from its own empty array.
NewViolations == <<>>

analyzeSecurity(s) ==
  LET lines == Split(s)
      violations == NewViolations \o ScanLines(lines, 1)
  IN [allowed |-> ~hasHighSeverity(violations) /\ ~hasTooManyViolations(violations),
      violations |-> violations,
      complexityTenths |-> ComplexityTenths(s, violations, lines)]

(***************************************************************************)
(* Inputs of the analyzer: sources put together from fragments             *)
(***************************************************************************)
NoReport == [allowed |-> FALSE, violations |-> <<>>, complexityTenths |-> -1]

\* Every concatenation of at most n fragments of F.
RECURSIVE Sources(_, _)
Sources(F, n) ==
  IF n = 0 THEN {<<>>}
  ELSE LET S == Sources(F, n - 1) IN S \cup {s \o f : s \in S, f \in F}

MaxPolicyFrags == 4

\* Statements with zero, one or two non-blocking constructs, one blocking one.
PolicyFrags ==
  { <<NL>>,
    <<"x", "=", "1", ";">>,
    <<"i", "m", "p", "o", "r", "t", " ", "f", "s", ";">>,
    <<"r", "e", "q", "u", "i", "r", "e", "(", "g", "l", "o", "b", "a", "l", ".", "a", ")", ";">>,
    <<"w", "i", "n", "d", "o", "w", ".", "d", "o", "c", "u", "m", "e", "n", "t", ".", "b", ";">>,
    <<"l", "o", "c", "a", "l", "S", "t", "o", "r", "a", "g", "e", ".", "c", "=", "s", "e", "t", "T", "i", "m", "e", "o", "u", "t", ";">>,
    <<"e", "v", "a", "l", "(", "d", ")", ";">> }

MaxCaseFrags == 3

\* The six blocking constructs of the catalog in two letter cases each.
CaseFrags ==
  { <<NL>>, <<"x">>,
    <<"e", "v", "a", "l", "(">>, <<"E", "V", "A", "L", "(">>,
    <<"F", "u", "n", "c", "t", "i", "o", "n", "(">>, <<"f", "u", "n", "c", "t", "i", "o", "n", "(">>,
    <<"f", "e", "t", "c", "h", "(">>, <<"F", "e", "t", "c", "h", "(">>,
    <<"p", "r", "o", "c", "e", "s", "s", ".">>, <<"P", "R", "O", "C", "E", "S", "S", ".">>,
    <<"w", "h", "i", "l", "e", "(", "t", "r", "u", "e", ")">>, <<"W", "h", "i", "l", "e", "(", "T", "R", "U", "E", ")">>,
    <<"f", "o", "r", "(", ";", ";", ")">>, <<"F", "O", "R", "(", ";", ";", ")">> }

InitAnalyzer(F, n) ==
  /\ code \in Sources(F, n)
  /\ report = NoReport
  /\ apc = "ready"
  /\ call = << >>
  /\ cpu = "none"
  /\ globalThis = FreshGlobal
  /\ NoHandler

\* One call of analyzeSecurity(code).
Analyze ==
  /\ apc = "ready"
  /\ report' = analyzeSecurity(code)
  /\ apc' = "done"
  /\ UNCHANGED <<code, evars, hvars>>

NextAnalyzer == Analyze

vars == <<avars, evars, hvars>>

SpecPolicy == InitAnalyzer(PolicyFrags, MaxPolicyFrags) /\ [][NextAnalyzer]_vars

SpecCase == InitAnalyzer(CaseFrags, MaxCaseFrags) /\ [][NextAnalyzer]_vars

MaxAppendFrags == 3

\* Statements with two non-blocking constructs each, and a blocking one.
AppendFrags ==
  { <<NL>>,
    <<"x", "=", "1", ";">>,
    <<"r", "e", "q", "u", "i", "r", "e", "(", "g", "l", "o", "b", "a", "l", ".", "a", ")", ";">>,
    <<"w", "i", "n", "d", "o", "w", ".", "d", "o", "c", "u", "m", "e", "n", "t", ".", "b", ";">>,
    <<"l", "o", "c", "a", "l", "S", "t", "o", "r", "a", "g", "e", ".", "c", "=", "s", "e", "t", "T", "i", "m", "e", "o", "u", "t", ";">>,
    <<"e", "v", "a", "l", "(", "d", ")", ";">> }

\* Lines that hold a blocking construct.
HighLines ==
  { <<"e", "v", "a", "l", "(", "d", ")">>,
    <<"p", "r", "o", "c", "e", "s", "s", ".", "e", "x", "i", "t", "(", ")">>,
    <<"i", "m", "p", "o", "r", "t", " ", "a", ";", " ", "f", "e", "t", "c", "h", "(", "u", ")">>,
    <<"W", "h", "i", "l", "e", " ", "(", "T", "R", "U", "E", ")", " ", "{", "}">>,
    <<"n", "e", "w", " ", "W", "e", "b", "S", "o", "c", "k", "e", "t", "(", "u", ")">> }

\* analyzeSecurity of the source with the line h appended as one more line.
AnalyzeAppended(h) ==
  /\ apc = "done"
  /\ code' = code \o <<NL>> \o h
  /\ report' = analyzeSecurity(code')
  /\ apc' = "appended"
  /\ UNCHANGED <<evars, hvars>>

NextAppend ==
  \/ Analyze
  \/ \E h \in HighLines : AnalyzeAppended(h)

SpecAppend == InitAnalyzer(AppendFrags, MaxAppendFrags) /\ [][NextAppend]_vars

MaxScoreFrags == 3

\* Lines for the score: one with four violations, a function and a class
\* definition, a property whose name holds the word class, an arrow function.
ScoreFrags ==
  { <<"r", "e", "q", "u", "i", "r", "e", "(", "g", "l", "o", "b", "a", "l", ".", "a", ")", ";", "w", "i", "n", "d", "o", "w", ".", "d", "o", "c", "u", "m", "e", "n", "t", ".", "b", ";", NL>>,
    <<"f", "u", "n", "c", "t", "i", "o", "n", " ", "f", "(", ")", "{", "}", NL>>,
    <<"c", "l", "a", "s", "s", " ", "A", "{", "}", NL>>,
    <<"x", ".", "c", "l", "a", "s", "s", "N", "a", "m", "e", "=", "f", ";", NL>>,
    <<"f", "=", "(", ")", "=", ">", "1", ";", NL>> }

SpecScore == InitAnalyzer(ScoreFrags, MaxScoreFrags) /\ [][NextAnalyzer]_vars

(***************************************************************************)
(* JavaScript values met by executeJavaScript.  A text is a sequence of     *)
(* pieces (strings); concatenation is \o and '' is << >>.                  *)
(***************************************************************************)
Undefined == [t |-> "undefined"]
Null == [t |-> "null"]
Bool(b) == [t |-> "boolean", b |-> b]
Num(n) == [t |-> "number", n |-> n]
Str(s) == [t |-> "string", s |-> s]
Err(name, message) == [t |-> "Error", name |-> name, message |-> message]
\* An object literal with the two properties the caller reads.
Obj(success, error) == [t |-> "object", success |-> success, error |-> error]
\* A promise the script made: how it settles, with what, and when ("now": already
\* settled; "short": before the timeout elapses; "long": after it; "never").
Promise(settle, with, lasts) ==
  [t |-> "promise", settle |-> settle, with |-> with, lasts |-> lasts]

\* Number to decimal text.
DigitText(d) ==
  CASE d = 0 -> "0" [] d = 1 -> "1" [] d = 2 -> "2" [] d = 3 -> "3" [] d = 4 -> "4"
    [] d = 5 -> "5" [] d = 6 -> "6" [] d = 7 -> "7" [] d = 8 -> "8" [] d = 9 -> "9"

RECURSIVE NatText(_)
NatText(n) == IF n < 10 THEN <<DigitText(n)>> ELSE NatText(n \div 10) \o <<DigitText(n % 10)>>

NumText(n) == IF n < 0 THEN <<"-">> \o NatText(0 - n) ELSE NatText(n)

\* ToBoolean.
Truthy(v) ==
  CASE v.t = "undefined" -> FALSE
    [] v.t = "null" -> FALSE
    [] v.t = "boolean" -> v.b
    [] v.t = "number" -> v.n # 0
    [] v.t = "string" -> v.s # <<>>
    [] OTHER -> TRUE

\* String(v).
StringOf(v) ==
  CASE v.t = "undefined" -> <<"undefined">>
    [] v.t = "null" -> <<"null">>
    [] v.t = "boolean" -> IF v.b THEN <<"true">> ELSE <<"false">>
    [] v.t = "number" -> NumText(v.n)
    [] v.t = "string" -> v.s
    [] v.t = "Error" -> IF v.message = <<>> THEN <<v.name>> ELSE <<v.name, ": ">> \o v.message
    [] v.t = "promise" -> <<"[object Promise]">>
    [] OTHER -> <<"[object Object]">>

\* Calling a method the console substitute does not have throws this.
NotAFunction(ch) == Err("TypeError", <<"console.", ch, " is not a function">>)

\* Reading a property of null or undefined throws this.
NullishRead(v, prop) ==
  Err("TypeError", <<"Cannot read properties of ", v.t, " (reading '", prop, "')">>)

Nullish(v) == v.t \in {"undefined", "null"}

\* v.success, v.error and v.message of a value that is not null or undefined.
GetProp(v, prop) ==
  CASE v.t = "object" /\ prop = "success" -> v.success
    [] v.t = "object" /\ prop = "error" -> v.error
    [] v.t = "Error" /\ prop = "message" -> Str(v.message)
    [] OTHER -> Undefined

(***************************************************************************)
(* Scripts: what a submitted source does when it is compiled and run       *)
(***************************************************************************)
Console(ch, text) == [op |-> "console", ch |-> ch, text |-> text]
\* Schedules a callback (the global timer functions are in scope of a function
\* made by new Function) that later calls console[ch]("late").
Defer(ch) == [op |-> "defer", ch |-> ch]
Throw(v) == [op |-> "throw", v |-> v]
Return(v) == [op |-> "return", v |-> v]
\* while (true) {} : never yields.
Spin == [op |-> "spin"]
\* A top-level await of a delay.
Await == [op |-> "await"]
\* Text that is no statement, such as an unclosed string.
Malformed == [op |-> "malformed"]
\* globalThis.shared = text : the function new Function makes runs in the global
\* scope, so the global object is in its reach.
SetGlobal(text) == [op |-> "setglobal", text |-> text]
\* console.log(globalThis.shared)
LogGlobal == [op |-> "logglobal"]

\* new Function('console', "'use strict'; try { code; return ... } catch ...") :
\* the body is that of a function that is not async, so a top-level await does
\* not parse, and neither does malformed text.
Compiles(body) ==
  \A k \in 1..Len(body) : body[k].op \notin {"await", "malformed"}

SyntaxErrorOf(body) ==
  LET k == CHOOSE j \in 1..Len(body) :
             /\ body[j].op \in {"await", "malformed"}
             /\ \A i \in 1..(j - 1) : body[i].op \notin {"await", "malformed"}
  IN IF body[k].op = "await"
       THEN Err("SyntaxError",
                <<"await is only valid in async functions and the top level bodies of modules">>)
       ELSE Err("SyntaxError", <<"Invalid or unexpected token">>)

(***************************************************************************)
(* executeJavaScript: one record per call                                  *)
(***************************************************************************)
NoResult == [t |-> "none"]
NoPromise == [t |-> "none"]
Pending == [state |-> "pending"]

\* The locals at line 293-296, before the try block.
NewCall(body, timeout) ==
  [script |-> body, timeout |-> timeout,
   pc |-> "start", ip |-> 0, phase |-> 0, evals |-> 0,
   output |-> <<>>, error |-> Str(<<>>), success |-> Bool(FALSE), exitCode |-> 0,
   race |-> [state |-> "none"], promise |-> NoPromise, timer |-> "unarmed",
   deferred |-> <<>>, result |-> NoResult]

\* The methods sandboxConsole has.
Channels == {"log", "error", "warn", "info"}

\* Mutant of ConsoleCall: console.error writes to the output buffer as well.
ConsoleCall_ErrorToOutput(st, ch, text) ==
  CASE ch = "log" -> [st EXCEPT !.output = @ \o <<text, NL>>]
    [] ch = "error" -> [st EXCEPT !.output = @ \o <<text, NL>>]
    [] ch = "warn" -> [st EXCEPT !.output = @ \o <<"[WARN] ", text, NL>>]
    [] ch = "info" -> [st EXCEPT !.output = @ \o <<"[INFO] ", text, NL>>]

\* Mutant of ConsoleCall: console.warn and console.info write the bare text.
ConsoleCall_NoPrefix(st, ch, text) ==
  CASE ch = "log" -> [st EXCEPT !.output = @ \o <<text, NL>>]
    [] ch = "error" -> [st EXCEPT !.error = Str(StringOf(@) \o <<text, NL>>)]
    [] ch = "warn" -> [st EXCEPT !.output = @ \o <<text, NL>>]
    [] ch = "info" -> [st EXCEPT !.output = @ \o <<text, NL>>]


\* One call of a sandboxConsole method with one text argument.
ConsoleCall(st, ch, text) ==
  CASE ch = "log" -> [st EXCEPT !.output = @ \o <<text, NL>>]
    [] ch = "error" -> [st EXCEPT !.error = Str(StringOf(@) \o <<text, NL>>)]
    [] ch = "warn" -> [st EXCEPT !.output = @ \o <<"[WARN] ", text, NL>>]
    [] ch = "info" -> [st EXCEPT !.output = @ \o <<"[INFO] ", text, NL>>]

\* return { success, output, error, exitCode }
Finish(st) ==
  [st EXCEPT !.pc = "returned",
             !.result = [success |-> st.success, output |-> st.output,
                         error |-> st.error, exitCode |-> st.exitCode]]

\* Mutant of OuterCatch: the catch block gives back an empty output.
OuterCatch_ClearsOutput(st, err) ==
  Finish([st EXCEPT !.success = Bool(FALSE),
                    !.output = <<>>,
                    !.error = IF err.t = "Error" THEN Str(err.message)
                              ELSE Str(<<"Execution failed">>),
                    !.exitCode = 1])


\* The catch block of executeJavaScript, and the return after it.
OuterCatch(st, err) ==
  Finish([st EXCEPT !.success = Bool(FALSE),
                    !.error = IF err.t = "Error" THEN Str(err.message)
                              ELSE Str(<<"Execution failed">>),
                    !.exitCode = 1])

\* Mutant of TryCovers: the result is read after the try block.
TryCovers_NotRead(stage) == stage \in {"compile", "evaluate", "race"}

\* The stages of the call that the try block encloses.
TryCovers(stage) == stage \in {"compile", "evaluate", "race", "read"}

\* An exception raised at a stage of the call.
Raise(st, stage, err) ==
  IF TryCovers(stage) THEN OuterCatch(st, err) ELSE [st EXCEPT !.pc = "rejected"]

\* Mutant of InnerCatch: the error is always reported by its string form.
InnerCatch_StringForm(v) == Obj(Bool(FALSE), Str(StringOf(v)))

\* The catch block inside the compiled function.
InnerCatch(v) ==
  LET m == GetProp(v, "message")
  IN Obj(Bool(FALSE), IF Truthy(m) THEN m ELSE Str(StringOf(v)))

TimeoutMessage(timeout) ==
  <<"Execution timeout after ">> \o NumText(timeout) \o <<"ms">>

\* Mutant of StartRace: a timer whose delay is not positive has already settled
\* the race when the value of safeExecute is looked at.
StartRace_ExpiredFirst(st, retval) ==
  LET pending == retval.t = "promise" /\ retval.lasts # "now"
      settled ==
        IF retval.t # "promise"
          THEN [state |-> "resolved", by |-> "evaluation", val |-> retval]
          ELSE [state |-> IF retval.settle = "resolve" THEN "resolved" ELSE "rejected",
                by |-> "evaluation", val |-> retval.with]
      expired == [state |-> "rejected", by |-> "timer",
                  val |-> Err("Error", TimeoutMessage(st.timeout))]
  IN [st EXCEPT !.pc = "awaiting",
                !.timer = IF st.timeout <= 0 THEN "fired" ELSE "armed",
                !.promise = IF pending THEN retval ELSE NoPromise,
                !.race = IF st.timeout <= 0 THEN expired
                         ELSE IF pending THEN Pending ELSE settled]


\* safeExecute has returned retval: Promise.race([Promise.resolve(retval), timer])
\* is built, the timer is set, and the call suspends at the await.
StartRace(st, retval) ==
  LET pending == retval.t = "promise" /\ retval.lasts # "now"
      settled ==
        IF retval.t # "promise"
          THEN [state |-> "resolved", by |-> "evaluation", val |-> retval]
          ELSE [state |-> IF retval.settle = "resolve" THEN "resolved" ELSE "rejected",
                by |-> "evaluation", val |-> retval.with]
  IN [st EXCEPT !.pc = "awaiting",
                !.timer = "armed",
                !.promise = IF pending THEN retval ELSE NoPromise,
                !.race = IF pending THEN Pending ELSE settled]

\* One statement of the compiled function, run with sandboxConsole.
StepOf(st, g) ==
  IF st.ip > Len(st.script)
    THEN StartRace(st, Obj(Bool(TRUE), Str(<<>>)))
  ELSE LET stmt == st.script[st.ip] IN
    CASE stmt.op = "console" /\ stmt.ch \in Channels ->
           [ConsoleCall(st, stmt.ch, stmt.text) EXCEPT !.ip = @ + 1]
      [] stmt.op = "console" /\ stmt.ch \notin Channels ->
           StartRace(st, InnerCatch(NotAFunction(stmt.ch)))
      [] stmt.op = "defer" ->
           [st EXCEPT !.deferred = Append(@, stmt.ch), !.ip = @ + 1]
      [] stmt.op = "setglobal" -> [st EXCEPT !.ip = @ + 1]
      [] stmt.op = "logglobal" ->
           [ConsoleCall(st, "log", g.shared) EXCEPT !.ip = @ + 1]
      [] stmt.op = "throw" ->
           IF Nullish(stmt.v)
             THEN Raise(st, "evaluate", NullishRead(stmt.v, "message"))
             ELSE StartRace(st, InnerCatch(stmt.v))
      [] stmt.op = "return" -> StartRace(st, stmt.v)
      [] stmt.op = "spin" -> [st EXCEPT !.phase = 1 - @]

\* The global object after the statement StepOf runs.
GlobalAfter(st, g) ==
  IF st.ip <= Len(st.script) /\ st.script[st.ip].op = "setglobal"
    THEN [g EXCEPT !.shared = st.script[st.ip].text]
    ELSE g

\* The continuation after the await: the race has settled.
ResumeOf(st) ==
  IF st.race.state = "rejected" THEN Raise(st, "race", st.race.val)
  ELSE LET v == st.race.val IN
    IF Nullish(v) THEN Raise(st, "read", NullishRead(v, "success"))
    ELSE LET s1 == [st EXCEPT !.success = GetProp(v, "success")]
             s2 == IF ~Truthy(s1.success)
                     THEN [s1 EXCEPT !.error = GetProp(v, "error"), !.exitCode = 1]
                     ELSE s1
         IN Finish(s2)

\* A continuation after an await runs before any timer or other callback: that
\* of executeJavaScript after the race, that of handleExecute after the call.
MicrotaskPending ==
  \/ \E c \in DOMAIN call : call[c].pc = "awaiting" /\ call[c].race.state # "pending"
  \/ \E r \in DOMAIN req \cap DOMAIN call :
       req[r].pc = "executing" /\ call[r].pc = "returned"

\* The thread is free and no continuation is queued.
MacrotaskReady == cpu = "none" /\ ~MicrotaskPending

\* Mutant of RaceOpen: the timer settles the race whenever it fires.
RaceOpen_Always(st) == st.race.state # "none"

\* The timer may settle the race only while the race is pending.
RaceOpen(st) == st.race.state = "pending"

\* Mutant of BufferOf: output and error are variables of the module, one pair
\* for all calls.
BufferOf_Shared(c) == CHOOSE x \in DOMAIN call : TRUE

\* The call whose output and error variables the console made by call c writes
\* and its return reads: they are locals of that call.
BufferOf(c) == c

\* Call c as its code sees it, with the output and error variables it uses.
View(c) ==
  [call[c] EXCEPT !.output = call[BufferOf(c)].output,
                  !.error = call[BufferOf(c)].error]

\* The calls after code of call c has brought its view to st.
Store(c, st) ==
  [x \in DOMAIN call |->
     IF x = c
       THEN IF BufferOf(c) = c THEN st
            ELSE [st EXCEPT !.output = call[c].output, !.error = call[c].error]
     ELSE IF x = BufferOf(c)
       THEN [call[x] EXCEPT !.output = st.output, !.error = st.error]
     ELSE call[x]]

\* new Function(...) and, if it compiles, the call of safeExecute; a call made
\* by the handler goes on in the handler's turn of the thread.
Compile(c) ==
  /\ call[c].pc = "start"
  /\ cpu = c \/ MacrotaskReady
  /\ IF Compiles(call[c].script)
       THEN /\ call' = [call EXCEPT ![c].pc = "running", ![c].ip = 1, ![c].evals = @ + 1]
            /\ cpu' = c
       ELSE /\ call' = Store(c, Raise(View(c), "compile", SyntaxErrorOf(call[c].script)))
            /\ cpu' = "none"
  /\ UNCHANGED <<globalThis, avars, hvars>>

Step(c) ==
  /\ call[c].pc = "running"
  /\ cpu = c
  /\ call' = Store(c, StepOf(View(c), globalThis))
  /\ globalThis' = GlobalAfter(call[c], globalThis)
  /\ cpu' = IF call'[c].pc = "running" THEN c ELSE "none"
  /\ UNCHANGED <<avars, hvars>>

Resume(c) ==
  /\ call[c].pc = "awaiting"
  /\ call[c].race.state # "pending"
  /\ cpu = "none"
  /\ call' = Store(c, ResumeOf(View(c)))
  /\ UNCHANGED <<cpu, globalThis, avars, hvars>>

\* The promise the script returned settles.
PromiseSettle(c) ==
  /\ call[c].promise.t = "promise"
  /\ call[c].promise.lasts \in {"short", "long"}
  /\ call[c].promise.lasts = "long" => call[c].timer = "fired"
  /\ MacrotaskReady
  /\ call' = [call EXCEPT
       ![c].promise = NoPromise,
       ![c].race = IF call[c].race.state = "pending"
                     THEN [state |-> IF call[c].promise.settle = "resolve"
                                       THEN "resolved" ELSE "rejected",
                           by |-> "evaluation", val |-> call[c].promise.with]
                     ELSE @]
  /\ UNCHANGED <<cpu, globalThis, avars, hvars>>

\* The setTimeout callback of line 332.
TimerFire(c) ==
  /\ call[c].timer = "armed"
  /\ ~(call[c].promise.t = "promise" /\ call[c].promise.lasts = "short")
  /\ MacrotaskReady
  /\ call' = [call EXCEPT
       ![c].timer = "fired",
       ![c].race = IF RaceOpen(call[c])
                     THEN [state |-> "rejected", by |-> "timer",
                           val |-> Err("Error", TimeoutMessage(call[c].timeout))]
                     ELSE @]
  /\ UNCHANGED <<cpu, globalThis, avars, hvars>>

\* A callback the script scheduled calls the console.
LateLog(c) ==
  /\ call[c].deferred # <<>>
  /\ MacrotaskReady
  /\ call' = Store(c, [ConsoleCall(View(c), Head(call[c].deferred), "late")
                          EXCEPT !.deferred = Tail(@)])
  /\ UNCHANGED <<cpu, globalThis, avars, hvars>>

NextExec ==
  \/ \E c \in DOMAIN call : Compile(c)
  \/ \E c \in DOMAIN call : Step(c)
  \/ \E c \in DOMAIN call : Resume(c)
  \/ \E c \in DOMAIN call : PromiseSettle(c)
  \/ \E c \in DOMAIN call : TimerFire(c)
  \/ \E c \in DOMAIN call : LateLog(c)

(***************************************************************************)
(* Inputs of the executor                                                  *)
(***************************************************************************)
MaxStmts == 2

TimeoutArgs == {-1, 0, 1}

\* Statements that go on to the next one.
PreStmts ==
  {Console(ch, "a") : ch \in Channels \cup {"debug"}} \cup {Defer(ch) : ch \in {"log", "error"}}

ThrowValues == {Err("Error", <<"x">>), Err("Error", <<>>), Null, Str(<<"boom">>)}

PlainValues ==
  {Undefined, Null, Num(5), Obj(Bool(TRUE), Str(<<>>)), Obj(Num(1), Undefined),
   Obj(Bool(FALSE), Str(<<"own">>))}

PromiseValues ==
  {Promise("resolve", v, l) :
     v \in {Undefined, Obj(Bool(TRUE), Str(<<>>))}, l \in {"now", "short", "long"}}
  \cup {Promise("reject", r, l) :
     r \in {Err("Error", <<"x">>), Null}, l \in {"now", "short", "long"}}
  \cup {Promise("never", Undefined, "never")}

\* Statements that end the script.
Endings ==
  {Throw(v) : v \in ThrowValues} \cup {Return(v) : v \in PlainValues \cup PromiseValues}
  \cup {Spin, Await, Malformed}

Scripts ==
  {pre \o tail : pre \in Sources({<<x>> : x \in PreStmts}, MaxStmts),
                 tail \in {<<>>} \cup {<<e>> : e \in Endings}}

ExecCalls == {"a"}

InitExec ==
  /\ call \in [ExecCalls -> {NewCall(b, t) : b \in Scripts, t \in TimeoutArgs}]
  /\ cpu = "none"
  /\ globalThis = FreshGlobal
  /\ code = <<>>
  /\ report = NoReport
  /\ apc = "idle"
  /\ NoHandler

SpecExec == InitExec /\ [][NextExec]_vars

\* The event loop runs every task that is ready.
FairExec ==
  \A c \in ExecCalls :
    /\ WF_vars(Compile(c))
    /\ WF_vars(Step(c))
    /\ WF_vars(Resume(c))
    /\ WF_vars(PromiseSettle(c))
    /\ WF_vars(TimerFire(c))
    /\ WF_vars(LateLog(c))

FairSpecExec == InitExec /\ [][NextExec]_vars /\ FairExec

\* Two calls in one isolate, each with a script whose texts carry its own name.
TwoCalls == {"a", "b"}

TwoTimeouts == {0, 1}

TaggedScripts(tag) ==
  {<<Console("log", tag), Defer("log"), Return(Promise("never", Undefined, "never"))>>,
   <<Console("error", tag), Defer("error"),
     Return(Promise("resolve", Obj(Bool(TRUE), Str(<<>>)), "long"))>>,
   <<SetGlobal(tag), Console("warn", tag)>>,
   <<LogGlobal, Throw(Err("Error", <<tag>>))>>,
   <<Console("info", tag), Malformed>>}

InitTwo ==
  /\ \E sa \in TaggedScripts("a"), sb \in TaggedScripts("b"), ta, tb \in TwoTimeouts :
       call = ("a" :> NewCall(sa, ta)) @@ ("b" :> NewCall(sb, tb))
  /\ cpu = "none"
  /\ globalThis = FreshGlobal
  /\ code = <<>>
  /\ report = NoReport
  /\ apc = "idle"
  /\ NoHandler

SpecTwo == InitTwo /\ [][NextExec]_vars

(***************************************************************************)
(* handleExecute: one record per request.  The body is the decoded JSON of  *)
(* a POST request; times are in milliseconds, so execution_time is kept in  *)
(* thousandths of a second.                                                *)
(***************************************************************************)
\* max_output_size of the security policy.
MaxOutputSize == 8192

\* "Basic timeout enforcement (up to 30 seconds)".
MaxTimeoutSeconds == 30

\* The text "a".repeat(8192) evaluates to, kept as one piece.
BigText == "a.repeat(8192)"

\* The number of characters of a piece and of a text.
PieceLen(p) == IF p = BigText THEN MaxOutputSize ELSE Len(p)

RECURSIVE TextLen(_)
TextLen(text) == IF text = <<>> THEN 0 ELSE PieceLen(Head(text)) + TextLen(Tail(text))

NaN == [t |-> "NaN"]

DigitValue(c) ==
  CASE c = "0" -> 0 [] c = "1" -> 1 [] c = "2" -> 2 [] c = "3" -> 3 [] c = "4" -> 4
    [] c = "5" -> 5 [] c = "6" -> 6 [] c = "7" -> 7 [] c = "8" -> 8 [] c = "9" -> 9
    [] OTHER -> -1

RECURSIVE ParseDigits(_, _, _)
ParseDigits(s, i, acc) ==
  IF i > Len(s) \/ DigitValue(s[i]) < 0 THEN acc
  ELSE ParseDigits(s, i + 1, acc * 10 + DigitValue(s[i]))

\* parseInt of a text of characters: the value of its leading digits.
ParseInt(s) ==
  IF s = <<>> \/ DigitValue(s[1]) < 0 THEN NaN ELSE Num(ParseDigits(s, 1, 0))

\* timeout || parseInt(env.MAX_EXECUTION_TIME || '10')
TimeoutOf(body, e) ==
  IF Truthy(body.timeout) THEN body.timeout
  ELSE ParseInt(IF Truthy(e.MAX_EXECUTION_TIME) THEN e.MAX_EXECUTION_TIME.s ELSE <<"1", "0">>)

\* hashCode: the digest stands for the text it was made of.
HashCode(text) == [sha256 |-> text]

NoResponse == [status |-> 0]

\* The JSON of a response and its HTTP status; a key the response leaves out
\* is undefined.
Response(status, success, output, error, exit_code, execution_time, security_report) ==
  [status |-> status, success |-> success, output |-> output, error |-> error,
   exit_code |-> exit_code, execution_time |-> execution_time,
   security_report |-> security_report]

CodeRequired ==
  Response(400, Bool(FALSE), <<>>, Str(<<"Code is required">>), 1, Undefined, Undefined)

NotSupportedText == "' not supported in Cloudflare Workers. Only JavaScript is supported."

Unsupported(language) ==
  Response(400, Bool(FALSE), <<>>,
           Str(<<"Language '">> \o StringOf(language) \o <<NotSupportedText>>),
           1, Undefined, Undefined)

\* Mutant of BlockedResponse: the report of the response is an empty one.
BlockedResponse_EmptyReport(securityReport, executionTime) ==
  Response(400, Bool(FALSE), <<>>, Str(<<"Code blocked by security policy">>), 1,
           Num(executionTime),
           [allowed |-> FALSE, violations |-> <<>>, complexityTenths |-> 0])

BlockedResponse(securityReport, executionTime) ==
  Response(400, Bool(FALSE), <<>>, Str(<<"Code blocked by security policy">>), 1,
           Num(executionTime), securityReport)

ResultResponse(result, executionTime, securityReport) ==
  Response(200, result.success, result.output, result.error, result.exitCode,
           Num(executionTime),
           [allowed |-> TRUE, violations |-> securityReport.violations,
            complexityTenths |-> securityReport.complexityTenths])

\* The row of the executions table.
Row(body, result, executionTime, securityReport) ==
  [code_hash |-> HashCode(body.code.s), language |-> "javascript",
   success |-> result.success, output_length |-> TextLen(result.output),
   execution_time |-> executionTime,
   violations_count |-> Len(securityReport.violations)]

\* Mutant of CodeMissing: only a body without the key is refused.
CodeMissing_NoKey(body) == body.code = Undefined

\* if (!code)
CodeMissing(body) == ~Truthy(body.code)

\* Mutant of LanguageRefused: only the language listed as unavailable is refused.
LanguageRefused_Python(body) == body.language = Str(<<"python">>)

\* if (language && language !== 'javascript')
LanguageRefused(body) == Truthy(body.language) /\ body.language # Str(<<"javascript">>)

\* Mutant of Blocks: the handler looks for a high violation itself.
Blocks_OnHigh(securityReport) == hasHighSeverity(securityReport.violations)

\* if (!securityReport.allowed)
Blocks(securityReport) == ~securityReport.allowed

\* Date.now() - startTime
Elapsed(startTime) == now - startTime

NewRequest(body, script) ==
  [body |-> body, script |-> script, pc |-> "new", startTime |-> 0,
   securityReport |-> NoReport, response |-> NoResponse]

\* handleExecute is called: startTime is taken and the body is awaited.
Begin(r) ==
  /\ req[r].pc = "new"
  /\ MacrotaskReady
  /\ req' = [req EXCEPT ![r].pc = "reading", ![r].startTime = now]
  /\ UNCHANGED <<avars, evars, now, env, rows>>

\* The body has been read: the two checks of the request.
Validate(r) ==
  /\ req[r].pc = "reading"
  /\ MacrotaskReady
  /\ IF CodeMissing(req[r].body)
       THEN /\ req' = [req EXCEPT ![r].pc = "responded", ![r].response = CodeRequired]
            /\ cpu' = "none"
     ELSE IF LanguageRefused(req[r].body)
       THEN /\ req' = [req EXCEPT ![r].pc = "responded",
                                  ![r].response = Unsupported(req[r].body.language)]
            /\ cpu' = "none"
     ELSE /\ req' = [req EXCEPT ![r].pc = "analysing"]
          /\ cpu' = r
  /\ UNCHANGED <<avars, call, globalThis, now, env, rows>>

\* const securityReport = analyzeSecurity(code), and the response if it blocks.
AnalyzeRequest(r) ==
  /\ req[r].pc = "analysing"
  /\ cpu = r
  /\ LET securityReport == analyzeSecurity(req[r].body.code.s)
     IN IF Blocks(securityReport)
          THEN /\ req' = [req EXCEPT
                    ![r].pc = "responded",
                    ![r].securityReport = securityReport,
                    ![r].response = BlockedResponse(securityReport, Elapsed(req[r].startTime))]
               /\ cpu' = "none"
          ELSE /\ req' = [req EXCEPT ![r].pc = "invoking",
                                     ![r].securityReport = securityReport]
               /\ cpu' = r
  /\ UNCHANGED <<avars, call, globalThis, now, env, rows>>

\* executeJavaScript(code, timeout || ...) is called.
Invoke(r) ==
  /\ req[r].pc = "invoking"
  /\ cpu = r
  /\ call' = (r :> NewCall(req[r].script, TimeoutOf(req[r].body, env).n)) @@ call
  /\ req' = [req EXCEPT ![r].pc = "executing"]
  /\ UNCHANGED <<avars, cpu, globalThis, now, env, rows>>

\* The answer of the catch block of handleExecute to an error thrown inside
\* its try block.
FailureResponse(error, executionTime) ==
  Response(500, Bool(FALSE), <<>>,
           IF error.t = "Error" THEN Str(error.message) ELSE Str(<<"Execution failed">>),
           1, Num(executionTime),
           [allowed |-> FALSE, violations |-> <<>>, complexityTenths |-> 0])

\* What the database the worker is bound to throws when an insert fails.
InsertError == Err("Error", <<"D1_ERROR">>)

\* if (env.DB) { ... prepare(...).bind(...).run() } : the insert is skipped
\* without a database, done by one that takes it, and throws otherwise.
InsertOutcome(db) ==
  CASE db = "none" -> "skipped"
    [] db = "ok" -> "done"
    [] db = "failing" -> "thrown"

\* Mutant of LogCatch: the error of the insert is not caught.
LogCatch_Rethrows(outcome) == outcome

\* catch (logError) { console.warn(...) } : an error of the insert is warned
\* about and goes no further.
LogCatch(outcome) == IF outcome = "thrown" THEN "warned" ELSE outcome

\* The call has returned: the row is written if there is a database and it
\* takes it, and the response is made; an error that leaves the logging block
\* would be answered by the catch block of handleExecute.
Respond(r) ==
  /\ req[r].pc = "executing"
  /\ r \in DOMAIN call
  /\ call[r].pc = "returned"
  /\ cpu = "none"
  /\ LET executionTime == Elapsed(req[r].startTime)
         logged == LogCatch(InsertOutcome(env.DB))
     IN /\ rows' = IF logged = "done"
                     THEN Append(rows, Row(req[r].body, call[r].result, executionTime,
                                           req[r].securityReport))
                     ELSE rows
        /\ req' = [req EXCEPT
             ![r].pc = "responded",
             ![r].response =
               IF logged = "thrown"
                 THEN FailureResponse(InsertError, Elapsed(req[r].startTime))
                 ELSE ResultResponse(call[r].result, executionTime,
                                     req[r].securityReport)]
  /\ UNCHANGED <<avars, evars, now, env>>

MaxClock == 2

\* A millisecond passes while a request is being handled.
Tick ==
  /\ now < MaxClock
  /\ \E r \in DOMAIN req : req[r].pc \notin {"new", "responded"}
  /\ now' = now + 1
  /\ UNCHANGED <<avars, evars, req, env, rows>>

NextHandle ==
  \/ \E r \in DOMAIN req : Begin(r)
  \/ \E r \in DOMAIN req : Validate(r)
  \/ \E r \in DOMAIN req : AnalyzeRequest(r)
  \/ \E r \in DOMAIN req : Invoke(r)
  \/ \E r \in DOMAIN req : Respond(r)
  \/ Tick
  \/ \E c \in DOMAIN call : Compile(c)
  \/ \E c \in DOMAIN call : Step(c)
  \/ \E c \in DOMAIN call : Resume(c)
  \/ \E c \in DOMAIN call : PromiseSettle(c)
  \/ \E c \in DOMAIN call : TimerFire(c)
  \/ \E c \in DOMAIN call : LateLog(c)

(***************************************************************************)
(* Inputs of the handler: a request pairs a source text with what the text *)
(* does when it is compiled and run                                        *)
(***************************************************************************)
\* the empty text
ProgramEmpty ==
  [text |-> <<>>,
   script |-> <<>>]

\* console.log("a")
ProgramLog ==
  [text |-> <<"c", "o", "n", "s", "o", "l", "e", ".", "l", "o", "g", "(", "\"", "a", "\"", ")">>,
   script |-> <<Console("log", "a")>>]

\* console.log("a".repeat(8192))
ProgramLogBig ==
  [text |-> <<"c", "o", "n", "s", "o", "l", "e", ".", "l", "o", "g", "(", "\"", "a", "\"", ".", "r", "e", "p", "e", "a", "t", "(", "8", "1", "9", "2", ")", ")">>,
   script |-> <<Console("log", BigText)>>]

\* eval(d);
ProgramEval ==
  [text |-> <<"e", "v", "a", "l", "(", "d", ")", ";">>,
   script |-> <<Throw(Err("ReferenceError", <<"d is not defined">>))>>]

\* require(global.a);localStorage.c=setTimeout;window.document.b;
ProgramSixMedium ==
  [text |-> <<"r", "e", "q", "u", "i", "r", "e", "(", "g", "l", "o", "b", "a", "l", ".", "a", ")", ";", "l", "o", "c", "a", "l", "S", "t", "o", "r", "a", "g", "e", ".", "c", "=", "s", "e", "t", "T", "i", "m", "e", "o", "u", "t", ";", "w", "i", "n", "d", "o", "w", ".", "d", "o", "c", "u", "m", "e", "n", "t", ".", "b", ";">>,
   script |-> <<Throw(Err("ReferenceError", <<"require is not defined">>))>>]

\* return new Promise(()=>{})
ProgramNeverSettles ==
  [text |-> <<"r", "e", "t", "u", "r", "n", " ", "n", "e", "w", " ", "P", "r", "o", "m", "i", "s", "e", "(", "(", ")", "=", ">", "{", "}", ")">>,
   script |-> <<Return(Promise("never", Undefined, "never"))>>]

\* setTimeout(()=>console.log("late"))
ProgramDeferred ==
  [text |-> <<"s", "e", "t", "T", "i", "m", "e", "o", "u", "t", "(", "(", ")", "=", ">", "c", "o", "n", "s", "o", "l", "e", ".", "l", "o", "g", "(", "\"", "l", "a", "t", "e", "\"", ")", ")">>,
   script |-> <<Defer("log")>>]

\* return new Promise(r=>setTimeout(r))
ProgramSettlesLater ==
  [text |-> <<"r", "e", "t", "u", "r", "n", " ", "n", "e", "w", " ", "P", "r", "o", "m", "i", "s", "e", "(", "r", "=", ">", "s", "e", "t", "T", "i", "m", "e", "o", "u", "t", "(", "r", ")", ")">>,
   script |-> <<Return(Promise("resolve", Undefined, "short"))>>]

\* throw new Error("x")
ProgramThrows ==
  [text |-> <<"t", "h", "r", "o", "w", " ", "n", "e", "w", " ", "E", "r", "r", "o", "r", "(", "\"", "x", "\"", ")">>,
   script |-> <<Throw(Err("Error", <<"x">>))>>]

\* while(1){}
ProgramLoops ==
  [text |-> <<"w", "h", "i", "l", "e", "(", "1", ")", "{", "}">>,
   script |-> <<Spin>>]


Programs ==
  {ProgramEmpty, ProgramLog, ProgramLogBig, ProgramEval, ProgramSixMedium,
   ProgramNeverSettles, ProgramDeferred, ProgramSettlesLater, ProgramThrows,
   ProgramLoops}

Languages ==
  {Undefined, Str(<<>>), Str(<<"javascript">>), Str(<<"python">>), Str(<<"node">>)}

Timeouts == {Undefined, Num(0), Num(5), Num(60)}

Body(codeValue, language, timeout) ==
  [code |-> codeValue, language |-> language, timeout |-> timeout]

\* Requests with a code text, and requests without the key.
Requests(P, L, T) ==
  {NewRequest(Body(Str(p.text), l, t), p.script) : p \in P, l \in L, t \in T}
  \cup {NewRequest(Body(Undefined, l, t), <<>>) : l \in L, t \in T}

Envs ==
  {[MAX_EXECUTION_TIME |-> m, DB |-> d] :
     m \in {Undefined, Str(<<"3", "0">>)}, d \in {"none", "ok", "failing"}}

InitHandle(R, Q, E) ==
  /\ req \in [R -> Q]
  /\ env \in E
  /\ now = 0
  /\ rows = <<>>
  /\ call = << >>
  /\ cpu = "none"
  /\ globalThis = FreshGlobal
  /\ code = <<>>
  /\ report = NoReport
  /\ apc = "idle"

\* One request, every input.
SpecHandle ==
  InitHandle({"r1"}, Requests(Programs, Languages, Timeouts), Envs) /\ [][NextHandle]_vars

\* Two requests handled at the same time.
PairPrograms == {ProgramLog, ProgramDeferred, ProgramSettlesLater, ProgramSixMedium}

PairRequests ==
  {NewRequest(Body(Str(p.text), Undefined, Undefined), p.script) : p \in PairPrograms}

SpecPair ==
  InitHandle({"r1", "r2"}, PairRequests, {[MAX_EXECUTION_TIME |-> Undefined, DB |-> "ok"]})
    /\ [][NextHandle]_vars

(***************************************************************************)
(* Claims about analyzeSecurity                                            *)
(***************************************************************************)
HasHigh(r) == \E j \in 1..Len(r.violations) : r.violations[j].severity = "high"

ContainsLit(lit, s, anyCase) ==
  \E i \in 1..(Len(s) - Len(lit) + 1) :
    \A j \in 1..Len(lit) : CharEq(anyCase, lit[j], s[i + j - 1])

\* The six constructs of the claim, the label of the rule that reports each, and
\* whether the rule's matcher carries the i flag.
HighConstructs ==
  { [lit |-> <<"e", "v", "a", "l", "(">>, name |-> "eval()", anyCase |-> FALSE],
    [lit |-> <<"F", "u", "n", "c", "t", "i", "o", "n", "(">>, name |-> "Function()", anyCase |-> FALSE],
    [lit |-> <<"f", "e", "t", "c", "h", "(">>, name |-> "fetch()", anyCase |-> FALSE],
    [lit |-> <<"p", "r", "o", "c", "e", "s", "s", ".">>, name |-> "process object", anyCase |-> FALSE],
    [lit |-> <<"w", "h", "i", "l", "e", "(", "t", "r", "u", "e", ")">>, name |-> "infinite loop", anyCase |-> TRUE],
    [lit |-> <<"f", "o", "r", "(", ";", ";", ")">>, name |-> "infinite loop", anyCase |-> TRUE] }

ReportsHigh(r, name) ==
  \E j \in 1..Len(r.violations) :
    r.violations[j].pattern = name /\ r.violations[j].severity = "high"

C3_EmptySource ==
  (apc = "done" /\ code = <<>>) =>
    /\ report.allowed = TRUE
    /\ report.violations = <<>>
    /\ report.complexityTenths = 0

\* Whether the last line of s matches a rule of severity high.
LastLineHasHigh(s) ==
  LET lines == Split(s)
  IN \E k \in 1..Len(dangerousPatterns) :
       dangerousPatterns[k].severity = "high" /\ Test(dangerousPatterns[k], lines[Len(lines)])

\* C15: if a source is not allowed, the source with one more line appended that
\* holds a high-severity pattern is not allowed either.
C15_AppendKeepsBlocked ==
  [][(/\ apc = "done"
      /\ apc' = "appended"
      /\ report.allowed = FALSE
      /\ LastLineHasHigh(code'))
     => report'.allowed = FALSE]_vars

\* C15 witness: a first line blocked for its six violations, none of them high,
\* and an appended second line with a high violation: not allowed.
C15_Witness ==
  /\ apc = "appended"
  /\ report.allowed = FALSE
  /\ Len(report.violations) = 7
  /\ \A j \in 1..6 : report.violations[j].severity # "high" /\ report.violations[j].line = 1
  /\ report.violations[7].severity = "high"
  /\ report.violations[7].line = 2

\* C16: complexityScore is an integer from 0 to 100.
C16_ScoreIsInteger ==
  apc = "done" =>
    /\ report.complexityTenths % 10 = 0
    /\ report.complexityTenths >= 0
    /\ report.complexityTenths <= 1000

\* C17: a source with no violation of severity high is allowed, however many
\* violations of severity medium or low it has.
C17_NoHighIsAllowed ==
  (apc = "done" /\ ~HasHigh(report)) => report.allowed = TRUE

\* The violation rule k gives for line i.
RuleRecord(i, k) ==
  [line |-> i,
   pattern |-> dangerousPatterns[k].name,
   description |-> dangerousPatterns[k].description,
   severity |-> dangerousPatterns[k].severity]

\* The pairs (line, rule) such that the rule's matcher matches the line.
Hits(s) ==
  LET lines == Split(s)
  IN {h \in (1..Len(lines)) \X (1..Len(dangerousPatterns)) :
        Test(dangerousPatterns[h[2]], lines[h[1]])}

\* C25: the report holds exactly one violation for each pair (line, rule) whose
\* rule matches the line, with the line's number and the rule's label,
\* description and severity, and no other violation.
C25_OnePerLineAndRule ==
  apc = "done" =>
    LET H == Hits(code)
        v == report.violations
    IN /\ Len(v) = Cardinality(H)
       /\ \A h \in H :
            Cardinality({j \in 1..Len(v) : v[j] = RuleRecord(h[1], h[2])})
              = Cardinality({g \in H : RuleRecord(g[1], g[2]) = RuleRecord(h[1], h[2])})

\* C25 witness: line 1 matches one rule twice and gives one violation, line 2
\* matches two rules and gives two.
C25_Witness ==
  /\ apc = "done"
  /\ code = <<"e", "v", "a", "l", "(", "d", ")", ";", "e", "v", "a", "l", "(", "d", ")", ";", NL, "r", "e", "q", "u", "i", "r", "e", "(", "g", "l", "o", "b", "a", "l", ".", "a", ")", ";">>
  /\ Len(report.violations) = 3
  /\ report.violations[1] = RuleRecord(1, 1)
  /\ report.violations[2] = RuleRecord(2, 4)
  /\ report.violations[3] = RuleRecord(2, 6)

\* The rules that give the violation v.
RuleIndexes(v) == {k \in 1..Len(dangerousPatterns) : RuleRecord(v.line, k) = v}

\* C26: the violations are in ascending order of line number, and those of one
\* line in the order of their rules in the catalog.
C26_DocumentOrder ==
  apc = "done" =>
    LET v == report.violations
    IN \A j, j2 \in 1..Len(v) :
         j < j2 =>
           \/ v[j].line < v[j2].line
           \/ /\ v[j].line = v[j2].line
              /\ \E k \in RuleIndexes(v[j]), k2 \in RuleIndexes(v[j2]) : k < k2

\* C26 witness: two violations of line 1 in catalog order, then one of line 2 whose
\* rule comes first in the catalog.
C26_Witness ==
  /\ apc = "done"
  /\ code = <<"r", "e", "q", "u", "i", "r", "e", "(", "g", "l", "o", "b", "a", "l", ".", "a", ")", ";", NL, "e", "v", "a", "l", "(", "d", ")", ";">>
  /\ report.violations = <<RuleRecord(1, 4), RuleRecord(1, 6), RuleRecord(2, 1)>>

\* The occurrences of the text lit in s.
Occurrences(lit, s) ==
  {j \in 1..(Len(s) - Len(lit) + 1) : SubSeq(s, j, j + Len(lit) - 1) = lit}

\* The definitions a keyword opens: the keyword at the start of a statement and
\* followed by a space.
Definitions(kw, s) ==
  {j \in Occurrences(kw, s) :
     /\ j = 1 \/ s[j - 1] \in {" ", NL, ";", "}"}
     /\ j + Len(kw) <= Len(s)
     /\ s[j + Len(kw)] = " "}

\* 10 * (the sum the score is made of), with nf functions and nc classes.
ScoreSum(r, s, nf, nc) ==
  Len(r.violations) * 100 + Len(Split(s)) + nf * 50 + nc * 30

\* C27 as stated: the score is 10 per violation, plus the number of lines divided
\* by 10, plus 5 per function definition and 3 per class definition, clamped to
\* 0..100.
C27_ScoreOfDefinitions ==
  apc = "done" =>
    LET sum == ScoreSum(report, code,
                        Cardinality(Definitions(<<"f", "u", "n", "c", "t", "i", "o", "n">>, code)),
                        Cardinality(Definitions(<<"c", "l", "a", "s", "s">>, code)))
    IN report.complexityTenths = IF sum > 1000 THEN 1000 ELSE sum

\* C27 amended: the score is 10 per violation, plus the number of lines divided
\* by 10, plus 5 per occurrence of the text function and 3 per occurrence of the
\* text class anywhere in the source, and 100 if that sum is more than 100.
C27_ScoreOfOccurrences ==
  apc = "done" =>
    LET sum == ScoreSum(report, code,
                        Cardinality(Occurrences(<<"f", "u", "n", "c", "t", "i", "o", "n">>, code)),
                        Cardinality(Occurrences(<<"c", "l", "a", "s", "s">>, code)))
    IN report.complexityTenths = IF sum > 1000 THEN 1000 ELSE sum

\* C27 witness: twelve violations on three lines: the sum is 120.4, the score 100.
C27_Witness ==
  /\ apc = "done"
  /\ Len(report.violations) = 12
  /\ ScoreSum(report, code, 0, 0) = 1204
  /\ report.complexityTenths = 1000

(***************************************************************************)
(* Claims about executeJavaScript                                          *)
(***************************************************************************)
Returned(st) == st.pc = "returned"

\* A statement after which the next one runs.
GoesOn(stmt) ==
  \/ stmt.op = "console" /\ stmt.ch \in {"log", "error", "warn", "info"}
  \/ stmt.op \in {"defer", "setglobal", "logglobal"}

\* The position of the first statement that does not go on (Len + 1: none).
FirstStop(body) ==
  IF \A k \in 1..Len(body) : GoesOn(body[k]) THEN Len(body) + 1
  ELSE CHOOSE k \in 1..Len(body) :
         ~GoesOn(body[k]) /\ \A j \in 1..(k - 1) : GoesOn(body[j])

NoError == [t |-> "none"]

\* The error compiling or evaluating the script throws, if it throws one.
ThrownBy(body) ==
  IF ~Compiles(body) THEN SyntaxErrorOf(body)
  ELSE LET k == FirstStop(body) IN
    IF k > Len(body) THEN NoError
    ELSE IF body[k].op = "console" THEN NotAFunction(body[k].ch)
    ELSE IF body[k].op = "throw" /\ body[k].v.t = "Error" THEN body[k].v
    ELSE NoError

RunsToEnd(body) == Compiles(body) /\ FirstStop(body) = Len(body) + 1

\* The lines the statements of the body write through console.error.
RECURSIVE ErrorLines(_)
ErrorLines(body) ==
  IF body = <<>> THEN <<>>
  ELSE (IF Head(body).op = "console" /\ Head(body).ch = "error"
          THEN <<Head(body).text, NL>> ELSE <<>>) \o ErrorLines(Tail(body))

\* C5 as stated: a script whose evaluation throws no error (here: it runs to its
\* end) gives success true, error '' and exitCode 0, whatever console channels it
\* called.
C5_NoThrowIsCleanSuccess ==
  \A c \in DOMAIN call :
    (Returned(call[c]) /\ RunsToEnd(call[c].script)) =>
      /\ call[c].result.success = Bool(TRUE)
      /\ call[c].result.error = Str(<<>>)
      /\ call[c].result.exitCode = 0

\* C5 amended: a script that runs to its end without throwing and without
\* returning a value of its own gives success true and exitCode 0, and error
\* holds the lines it wrote through console.error (empty when it wrote none).
C5_RunToEndIsSuccess ==
  \A c \in DOMAIN call :
    (Returned(call[c]) /\ RunsToEnd(call[c].script)) =>
      /\ call[c].result.success = Bool(TRUE)
      /\ call[c].result.error = Str(ErrorLines(call[c].script))
      /\ call[c].result.exitCode = 0

\* C5 witness: a script that called console.log and console.error has returned
\* with success and the console.error line in error.
C5_Witness ==
  \E c \in DOMAIN call :
    /\ Returned(call[c])
    /\ call[c].script = <<Console("log", "a"), Console("error", "a")>>
    /\ call[c].result.success = Bool(TRUE)
    /\ call[c].result.error = Str(<<"a", NL>>)
    /\ call[c].result.output = <<"a", NL>>

\* C6: when the timer fires before the evaluation settles, the result is
\* success false, exitCode 1 and error "Execution timeout after Ns", N the
\* timeout in seconds.
C6_TimeoutMessageInSeconds ==
  \A c \in DOMAIN call :
    (Returned(call[c]) /\ call[c].race.state = "rejected" /\ call[c].race.by = "timer") =>
      /\ call[c].result.success = Bool(FALSE)
      /\ call[c].result.exitCode = 1
      /\ call[c].result.error =
           Str(<<"Execution timeout after ">> \o NumText(call[c].timeout) \o <<"s">>)

\* The text mentions the timeout.
MentionsTimeout(v) ==
  v.t = "string" /\ \E i \in 1..Len(v.s) : v.s[i] = "Execution timeout after "

TimedOutResult(st) ==
  /\ Returned(st)
  /\ st.result.success = Bool(FALSE)
  /\ st.result.exitCode = 1
  /\ MentionsTimeout(st.result.error)

\* The evaluation has reached a loop that never yields.
Spinning(st) ==
  st.pc = "running" /\ st.ip <= Len(st.script) /\ st.script[st.ip].op = "spin"

\* C7: a call whose script loops forever without yielding eventually returns,
\* with success false and an error that mentions the timeout.
C7_LoopEndsInTimeout ==
  \A c \in ExecCalls : Spinning(call[c]) ~> TimedOutResult(call[c])

\* The script reaches a suspension point that lasts longer than the timeout: a
\* top-level await of a long delay, or the return of a promise that settles after
\* the timeout or never.
SuspendsLonger(body) ==
  LET k == FirstStop(body) IN
  /\ k <= Len(body)
  /\ \/ body[k].op = "await"
     \/ /\ body[k].op = "return"
        /\ body[k].v.t = "promise"
        /\ body[k].v.lasts \in {"long", "never"}

\* C8: a script with a suspension point that would run longer than the timeout is
\* ended by the timer: success false, exitCode 1, an error mentioning the timeout.
C8_SuspendedScriptTimesOut ==
  \A c \in DOMAIN call :
    (Returned(call[c]) /\ SuspendsLonger(call[c].script)) => TimedOutResult(call[c])

\* What holds of a call in every state: the script is evaluated at most once (once
\* if it compiles), there is a result exactly when the call has returned, and the
\* result is a timeout exactly when the timer settled the race.
OneOutcome(st) ==
  /\ st.evals <= 1
  /\ (st.result # NoResult) <=> Returned(st)
  /\ Returned(st) =>
       /\ st.evals = IF Compiles(st.script) THEN 1 ELSE 0
       /\ (st.race.state = "rejected" /\ st.race.by = "timer") =>
            (TimedOutResult(st) /\ st.result.error = Str(st.race.val.message))
       /\ (st.race.state = "none" \/ st.race.by = "evaluation") =>
            ~MentionsTimeout(st.result.error)

\* What holds of every step of a call: a result once returned stays as it is, the
\* script is not evaluated again, a settled race stays settled, and the race is
\* settled by the timer exactly in the step in which the timer fires.
OutcomeKept(st, nx) ==
  /\ st.result # NoResult => (nx.result = st.result /\ Returned(nx))
  /\ st.evals = 1 => nx.evals = 1
  /\ st.race.state \in {"resolved", "rejected"} => nx.race = st.race
  /\ (st.race.state = "pending" /\ nx.race.state # "pending") =>
       (nx.race.by = "timer" <=> (st.timer = "armed" /\ nx.timer = "fired"))

\* C9: a call evaluates the script once and ends in exactly one outcome, chosen by
\* whichever of the evaluation and the timer settles first; what the other branch
\* does later (the timer firing, the promise settling, the script logging) changes
\* neither the outcome nor the result returned, and nothing is evaluated again.
C9_OneOutcomeKept ==
  /\ [](\A c \in ExecCalls : OneOutcome(call[c]))
  /\ [][\A c \in ExecCalls : OutcomeKept(call[c], call'[c])]_vars

\* C9 witness: the call timed out and returned; afterwards the script's promise
\* settled and its callback wrote a line, which the returned result does not hold.
C9_Witness ==
  \E c \in DOMAIN call :
    /\ Returned(call[c])
    /\ call[c].race.state = "rejected"
    /\ call[c].race.by = "timer"
    /\ Len(call[c].script) > 0
    /\ call[c].script[Len(call[c].script)].op = "return"
    /\ call[c].script[Len(call[c].script)].v.t = "promise"
    /\ call[c].script[Len(call[c].script)].v.lasts = "long"
    /\ call[c].promise = NoPromise
    /\ call[c].output # call[c].result.output

\* The evaluation reaches a loop that never yields.
RunsForever(body) ==
  /\ Compiles(body)
  /\ FirstStop(body) <= Len(body)
  /\ body[FirstStop(body)].op = "spin"

WellFormedResult(r) ==
  /\ DOMAIN r = {"success", "output", "error", "exitCode"}
  /\ r.exitCode \in {0, 1}

\* C10: executeJavaScript never throws or rejects, and for every script that does
\* not loop forever (it ends normally, throws an Error or another value, does not
\* compile, returns any value, null included, or a promise that resolves, rejects
\* or never settles) and every timeout it returns a result with success, output,
\* error and exitCode.
C10_AlwaysAResult ==
  /\ [](\A c \in ExecCalls :
          /\ call[c].pc # "rejected"
          /\ Returned(call[c]) => WellFormedResult(call[c].result))
  /\ \A c \in ExecCalls :
       (call[c].pc = "start" /\ ~RunsForever(call[c].script)) ~> Returned(call[c])

\* C10 witness: a script that returned null has been given a failed result.
C10_Witness ==
  \E c \in DOMAIN call :
    /\ Returned(call[c])
    /\ call[c].script = <<Return(Null)>>
    /\ call[c].result.success = Bool(FALSE)
    /\ call[c].result.exitCode = 1

\* A script that only calls console channels (any of the five names).
OnlyConsole(body) == \A k \in 1..Len(body) : body[k].op = "console"

\* The number of line ends in a text.
LineCount(text) == Cardinality({i \in 1..Len(text) : text[i] = NL})

\* The line one console statement adds to the output buffer (none for a
\* statement that is no call of log, warn or info).
OutLine(stmt) ==
  IF stmt.op # "console" THEN <<>>
  ELSE CASE stmt.ch = "log" -> <<stmt.text, NL>>
         [] stmt.ch = "warn" -> <<"[WARN] ", stmt.text, NL>>
         [] stmt.ch = "info" -> <<"[INFO] ", stmt.text, NL>>
         [] OTHER -> <<>>

\* The output lines of the first n statements of a body, in order.
RECURSIVE OutLines(_, _)
OutLines(body, n) ==
  IF n <= 0 THEN <<>>
  ELSE OutLines(body, n - 1) \o (IF n <= Len(body) THEN OutLine(body[n]) ELSE <<>>)

\* The number of statements of a body that ran before evaluation stopped.
RanBefore(body) == IF Compiles(body) THEN FirstStop(body) - 1 ELSE 0

\* C23 as stated: after any sequence of calls of log, info, warn, error and
\* debug, the output buffer holds one line per call: every channel appends to
\* the output buffer.
C23_EveryChannelToOutput ==
  \A c \in DOMAIN call :
    (Returned(call[c]) /\ OnlyConsole(call[c].script)) =>
      LineCount(call[c].result.output) = Len(call[c].script)

\* C23 amended: after any sequence of calls of the console channels, the output
\* buffer holds exactly one formatted line per call of log, info and warn made
\* before the first call of debug, in call order; a call of error adds its line
\* to the error text instead, and debug is no channel: calling it throws a
\* TypeError that ends the evaluation with a failed result.
C23_OutputChannelsInOrder ==
  \A c \in DOMAIN call :
    (Returned(call[c]) /\ OnlyConsole(call[c].script)) =>
      LET body == call[c].script
          res == call[c].result
      IN /\ res.output = OutLines(body, RanBefore(body))
         /\ RunsToEnd(body) =>
              /\ res.success = Bool(TRUE)
              /\ res.error = Str(ErrorLines(body))
         /\ ~RunsToEnd(body) =>
              /\ body[FirstStop(body)].ch = "debug"
              /\ res.success = Bool(FALSE)
              /\ res.error = Str(NotAFunction("debug").message)

\* C23 witness: a script that called console.error and then console.info has
\* returned; the output holds the info line alone.
C23_Witness ==
  \E c \in DOMAIN call :
    /\ Returned(call[c])
    /\ call[c].script = <<Console("error", "a"), Console("info", "a")>>
    /\ call[c].result.output = <<"[INFO] ", "a", NL>>
    /\ call[c].result.error = Str(<<"a", NL>>)

\* The channels of the callbacks the first n statements of a body scheduled.
RECURSIVE DeferredBy(_, _)
DeferredBy(body, n) ==
  IF n <= 0 THEN <<>>
  ELSE DeferredBy(body, n - 1)
         \o (IF n <= Len(body) /\ body[n].op = "defer" THEN <<body[n].ch>> ELSE <<>>)

\* The output lines of the first n callbacks of a list of channels.
RECURSIVE LateLines(_, _)
LateLines(chs, n) ==
  IF n <= 0 THEN <<>>
  ELSE LateLines(chs, n - 1) \o OutLine(Console(chs[n], "late"))

\* The statements of a call's script that have run.
RanSoFar(st) ==
  IF st.pc \in {"start", "running"} THEN st.ip - 1 ELSE RanBefore(st.script)

\* The lines written through the output channels so far: those of the
\* statements that ran, then those of the callbacks that ran.
WrittenSoFar(st) ==
  LET ran == IF RanSoFar(st) < 0 THEN 0 ELSE RanSoFar(st)
      chs == DeferredBy(st.script, ran)
  IN OutLines(st.script, ran) \o LateLines(chs, Len(chs) - Len(st.deferred))

\* C24: the output of a result is exactly the lines written through the output
\* channels up to the point where evaluation stopped: the buffer holds the
\* lines written so far, the step that returns copies it into the result
\* whether it goes through the catch block (a throw, a timeout) or not, and
\* nothing written later changes the result.
C24_OutputIsWhatWasWritten ==
  [][\A c \in DOMAIN call :
       /\ call'[c].output = WrittenSoFar(call'[c])
       /\ (~Returned(call[c]) /\ Returned(call'[c])) =>
            call'[c].result.output = WrittenSoFar(call[c])
       /\ Returned(call[c]) => call'[c].result = call[c].result]_vars

\* C24 witness: a script logged a line, scheduled a callback and returned a
\* promise that never settles; the callback ran before the timer fired and the
\* timed-out result holds both lines.
C24_Witness ==
  \E c \in DOMAIN call :
    /\ Returned(call[c])
    /\ call[c].script = <<Console("log", "a"), Defer("log"),
                          Return(Promise("never", Undefined, "never"))>>
    /\ call[c].race.state = "rejected" /\ call[c].race.by = "timer"
    /\ call[c].result.output = <<"a", NL, "late", NL>>

\* C28 as stated: in every result exitCode is 0 exactly when success is true,
\* and 1 otherwise, also when the script returns a value of its own.
C28_ExitCodeMatchesSuccess ==
  \A c \in DOMAIN call :
    Returned(call[c]) =>
      /\ call[c].result.exitCode \in {0, 1}
      /\ call[c].result.exitCode = 0 <=> call[c].result.success = Bool(TRUE)

\* The statement at which the evaluation of a body stopped returned a promise
\* that was not settled when the timer fired.
LeftUnsettled(body) ==
  /\ Compiles(body)
  /\ FirstStop(body) <= Len(body)
  /\ body[FirstStop(body)].op = "return"
  /\ body[FirstStop(body)].v.t = "promise"
  /\ body[FirstStop(body)].v.lasts \in {"long", "never"}

\* C29: the timer is armed only after the synchronous evaluation has finished,
\* and the race is lost to the timer (the result is a timeout) only when the
\* evaluation left a promise that was still unsettled when the timer fired,
\* whatever the timeout: zero and negative ones too.
C29_SyncNeverTimesOut ==
  \A c \in DOMAIN call :
    /\ call[c].pc \in {"start", "running"} => call[c].timer = "unarmed"
    /\ (call[c].race.state = "rejected" /\ call[c].race.by = "timer") =>
         LeftUnsettled(call[c].script)
    /\ (Returned(call[c]) /\ MentionsTimeout(call[c].result.error)) =>
         LeftUnsettled(call[c].script)

\* C29 witness: a call with timeout 0 whose script returned a value at once has
\* returned that value's result, and its timer has fired since.
C29_Witness ==
  \E c \in DOMAIN call :
    /\ Returned(call[c])
    /\ call[c].timeout = 0
    /\ call[c].script = <<Console("log", "a"), Return(Obj(Bool(TRUE), Str(<<>>)))>>
    /\ call[c].timer = "fired"
    /\ call[c].result.success = Bool(TRUE)
    /\ call[c].result.exitCode = 0


\* A piece of a pattern that stands for any text.
AnyText == "?"

\* The line a statement writes to the output buffer, console.log(globalThis.shared)
\* writing some text.
PatternLine(stmt) ==
  IF stmt.op = "logglobal" THEN <<AnyText, NL>> ELSE OutLine(stmt)

RECURSIVE OutPattern(_, _)
OutPattern(body, n) ==
  IF n <= 0 THEN <<>>
  ELSE OutPattern(body, n - 1) \o (IF n <= Len(body) THEN PatternLine(body[n]) ELSE <<>>)

Matches(text, pattern) ==
  /\ Len(text) = Len(pattern)
  /\ \A i \in 1..Len(pattern) : pattern[i] = AnyText \/ pattern[i] = text[i]

\* The texts the console calls and thrown errors of a script carry.
TextsOf(body) ==
  {body[k].text : k \in {j \in 1..Len(body) : body[j].op = "console"}}
  \cup UNION {{body[k].v.message[i] : i \in 1..Len(body[k].v.message)} :
               k \in {j \in 1..Len(body) : body[j].op = "throw" /\ body[j].v.t = "Error"}}

\* C22: for two calls whose evaluations interleave, each call's output buffer
\* holds at every moment exactly the lines its own script's console calls wrote
\* (its statements, then its callbacks), the returned output is that buffer as
\* it was at some moment, and the returned error holds no text of the other
\* call's script: no buffer is shared.
C22_OwnTextOnly ==
  \A c \in DOMAIN call :
    LET st == call[c]
        ran == IF RanSoFar(st) < 0 THEN 0 ELSE RanSoFar(st)
        chs == DeferredBy(st.script, ran)
    IN /\ Matches(st.output,
                  OutPattern(st.script, ran) \o LateLines(chs, Len(chs) - Len(st.deferred)))
       /\ Returned(st) =>
            /\ \E n \in 0..Len(chs) :
                 Matches(st.result.output, OutPattern(st.script, ran) \o LateLines(chs, n))
            /\ \A d \in DOMAIN call \ {c} :
                 \A i \in 1..Len(StringOf(st.result.error)) :
                   StringOf(st.result.error)[i] \notin TextsOf(call[d].script) \ TextsOf(st.script)

\* C22 witness: call b has returned a result with its own warning line while
\* call a, which logged a line before, is still waiting for its race.
C22_Witness ==
  /\ DOMAIN call = TwoCalls
  /\ call["a"].pc = "awaiting"
  /\ call["a"].race.state = "pending"
  /\ call["a"].output = <<"a", NL>>
  /\ Returned(call["b"])
  /\ call["b"].evals = 1
  /\ call["b"].result.output = <<"[WARN] ", "b", NL>>
  /\ call["b"].result.error = Str(<<>>)

\* The value of globalThis.shared statement n of a body reads when no other
\* script has run in the isolate.
RECURSIVE SharedAlone(_, _)
SharedAlone(body, n) ==
  IF n <= 1 THEN FreshGlobal.shared
  ELSE IF body[n - 1].op = "setglobal" THEN body[n - 1].text
  ELSE SharedAlone(body, n - 1)

\* The output lines of the first n statements of a body run on its own.
RECURSIVE OutAlone(_, _)
OutAlone(body, n) ==
  IF n <= 0 THEN <<>>
  ELSE OutAlone(body, n - 1)
         \o (IF n > Len(body) THEN <<>>
             ELSE IF body[n].op = "logglobal" THEN <<SharedAlone(body, n), NL>>
             ELSE OutLine(body[n]))

\* C21 as stated: a script reaches nothing but the console it is given, so the
\* result of a call is what its script gives when run on its own, whatever the
\* script of another call did.
C21_NoInfluenceBetweenCalls ==
  \A c \in DOMAIN call :
    Returned(call[c]) =>
      LET body == call[c].script
          chs == DeferredBy(body, RanBefore(body))
      IN \E n \in 0..Len(chs) :
           call[c].result.output = OutAlone(body, RanBefore(body)) \o LateLines(chs, n)

(***************************************************************************)
(* Claims about handleExecute                                              *)
(***************************************************************************)
Analysed(q) == q.securityReport # NoReport

HasText(q) == q.body.code.t = "string"

NoCode(q) == q.body.code = Undefined \/ q.body.code = Str(<<>>)

\* C11: a request is at the executor only when the analysis of its own source
\* has completed and returned allowed == true; a request that has no code, names
\* another language than javascript, or is blocked is never at the executor.
C11_ExecutorAfterAllowed ==
  \A r \in DOMAIN req :
    /\ r \in DOMAIN call =>
         /\ HasText(req[r])
         /\ Analysed(req[r])
         /\ req[r].securityReport = analyzeSecurity(req[r].body.code.s)
         /\ req[r].securityReport.allowed = TRUE
    /\ ( \/ NoCode(req[r])
         \/ req[r].body.language \in {Str(<<"python">>), Str(<<"node">>)}
         \/ (HasText(req[r]) /\ ~analyzeSecurity(req[r].body.code.s).allowed) )
       => r \notin DOMAIN call

\* C11 witness: a source with one medium violation was analysed, allowed, and
\* is being executed.
C11_Witness ==
  \E r \in DOMAIN req :
    /\ r \in DOMAIN call
    /\ call[r].pc = "running"
    /\ req[r].securityReport.allowed = TRUE
    /\ Len(req[r].securityReport.violations) = 1

BlockedFields(resp) ==
  /\ resp.success = Bool(FALSE)
  /\ resp.output = <<>>
  /\ resp.error = Str(<<"Code blocked by security policy">>)
  /\ resp.exit_code = 1

\* C12 as stated: the response to a blocked source has success false, output "",
\* error "Code blocked by security policy", exitCode 1, executionTime 0 and a
\* report with allowed false and the analyzer's violations and score.
C12_BlockedResponseZeroTime ==
  \A r \in DOMAIN req :
    (req[r].pc = "responded" /\ Analysed(req[r]) /\ ~req[r].securityReport.allowed) =>
      /\ BlockedFields(req[r].response)
      /\ req[r].response.execution_time = Num(0)
      /\ req[r].response.security_report = analyzeSecurity(req[r].body.code.s)
      /\ req[r].response.security_report.allowed = FALSE

\* C12 amended: when the analysis of a request's source returns allowed == false
\* the handler responds at once with success false, output "", error "Code
\* blocked by security policy", exitCode 1, the time elapsed since the handler
\* started as executionTime, and a report with allowed false and the analyzer's
\* violations and score.
C12_BlockedResponseElapsed ==
  [][\A r \in DOMAIN req :
       (/\ req[r].pc = "analysing"
        /\ req'[r].pc # "analysing"
        /\ ~analyzeSecurity(req[r].body.code.s).allowed) =>
         /\ req'[r].pc = "responded"
         /\ BlockedFields(req'[r].response)
         /\ req'[r].response.execution_time = Num(now - req[r].startTime)
         /\ req'[r].response.security_report = analyzeSecurity(req[r].body.code.s)
         /\ req'[r].response.security_report.allowed = FALSE]_vars

\* C12 witness: a source blocked for its six violations, none of them high, is
\* answered two milliseconds after the handler started.
C12_Witness ==
  \E r \in DOMAIN req :
    /\ req[r].pc = "responded"
    /\ BlockedFields(req[r].response)
    /\ req[r].response.execution_time = Num(2)
    /\ Len(req[r].response.security_report.violations) = 6
    /\ ~HasHigh(req[r].response.security_report)

\* C13: a request whose code is missing or empty never reaches the analyzer or
\* the executor, and its response is HTTP 400 with error 'Code is required'.
C13_NoCodeRejected ==
  \A r \in DOMAIN req :
    NoCode(req[r]) =>
      /\ req[r].pc \in {"new", "reading", "responded"}
      /\ ~Analysed(req[r])
      /\ r \notin DOMAIN call
      /\ req[r].pc = "responded" =>
           /\ req[r].response.status = 400
           /\ req[r].response.success = Bool(FALSE)
           /\ req[r].response.error = Str(<<"Code is required">>)

\* C13 witness: a request with the empty text as code was answered so.
C13_Witness ==
  \E r \in DOMAIN req :
    /\ req[r].body.code = Str(<<>>)
    /\ req[r].pc = "responded"
    /\ req[r].response.status = 400
    /\ req[r].response.error = Str(<<"Code is required">>)

MentionsNotSupported(v) ==
  v.t = "string" /\ \E k \in 1..Len(v.s) : v.s[k] = NotSupportedText

NotSupportedOutcome(r) ==
  /\ req[r].pc \in {"new", "reading", "responded"}
  /\ ~Analysed(req[r])
  /\ r \notin DOMAIN call
  /\ req[r].pc = "responded" =>
       /\ req[r].response.status = 400
       /\ MentionsNotSupported(req[r].response.error)

\* C20 as stated: a request whose language is given and is not 'javascript' is
\* answered with HTTP 400 and a 'not supported' error, and its code is neither
\* analysed nor executed.
C20_OtherLanguageRejected ==
  \A r \in DOMAIN req :
    (req[r].body.language # Undefined /\ req[r].body.language # Str(<<"javascript">>))
      => NotSupportedOutcome(r)

\* C20 amended: a request with a code that is not empty, whose language is a text
\* that is not empty and is not 'javascript', is answered with HTTP 400 and a
\* 'not supported' error, and its code is neither analysed nor executed.
C20_NamedOtherLanguageRejected ==
  \A r \in DOMAIN req :
    (/\ ~NoCode(req[r])
     /\ req[r].body.language \notin {Undefined, Str(<<>>), Str(<<"javascript">>)})
      => NotSupportedOutcome(r)

\* C20 witness: a request with code and language 'python' was answered so.
C20_Witness ==
  \E r \in DOMAIN req :
    /\ ~NoCode(req[r])
    /\ req[r].body.language = Str(<<"python">>)
    /\ req[r].pc = "responded"
    /\ req[r].response.status = 400
    /\ MentionsNotSupported(req[r].response.error)

\* C19: no call of the executor has a timeout longer than 30 seconds.
C19_TimeoutAtMostThirty ==
  \A r \in DOMAIN req \cap DOMAIN call : call[r].timeout <= MaxTimeoutSeconds

\* C18: the output of a response is never longer than 8192 characters.
C18_OutputAtMost8K ==
  \A r \in DOMAIN req :
    (req[r].pc = "responded" /\ req[r].response.status = 200) =>
      TextLen(req[r].response.output) <= MaxOutputSize

C30_LoggingFailureNotSurfaced ==
  \A r \in DOMAIN req :
    (req[r].pc = "responded" /\ r \in DOMAIN call) =>
      LET resp == req[r].response
          result == call[r].result
      IN /\ resp.status = 200
         /\ resp.success = result.success
         /\ resp.output = result.output
         /\ resp.error = result.error
         /\ resp.exit_code = result.exitCode
         /\ resp.security_report.allowed
         /\ resp.security_report.violations = req[r].securityReport.violations
         /\ resp.security_report.complexityTenths = req[r].securityReport.complexityTenths
         /\ env.DB = "failing" => rows = <<>>

\* C30 witness: with a failing store, a request whose script logged a line has
\* been answered with that line and no row was written.
C30_Witness ==
  \E r \in DOMAIN req :
    /\ env.DB = "failing"
    /\ req[r].pc = "responded"
    /\ r \in DOMAIN call
    /\ req[r].response.status = 200
    /\ req[r].response.success = Bool(TRUE)
    /\ req[r].response.output # <<>>
    /\ rows = <<>>

====
